---- MODULE Spec2Model ----
(***************************************************************************)
(* Cart / checkout core and auth handlers of the e-commerce backend       *)
(* (src/main.py).                                                          *)
(*                                                                         *)
(* The document store holds the collections user, product, cart and order. *)
(* Every HTTP handler is a sequence of independent store calls; a handler  *)
(* that reads and then writes is split at the point between its reads and  *)
(* its write(s), so that two handler invocations can interleave there.     *)
(*                                                                         *)
(* Money is counted in thousandths of a dollar (mills), so that prices     *)
(* with more than two decimals exist and round(x, 2) is not the identity.  *)
(* Id strings stand for the 24-digit hex strings of the wire format.       *)
(***************************************************************************)
EXTENDS Integers, Sequences, FiniteSets, TLC

\* ----------------------------------------------------------------- bounds
MaxProducts == 2
MaxRequests == 3

Threads == {1, 2}

\* ----------------------------------------------------------------- inputs
\* Hex value of the id strings the requests carry.  "aa" and "AA" spell the
\* same ObjectId (hex digits are case-insensitive); "zz" is not hex.
HexValue == [aa |-> 1, AA |-> 1, bb |-> 2, cc |-> 3, dd |-> 4, ee |-> 5]

UserIdInputs == {"dd", "ee", "zz"}
ProductIdInputs == {"aa", "AA", "bb", "zz"}
QuantityInputs == {-1, 2}
ProductInputs == {[title |-> "tee", price |-> 4], [title |-> "mug", price |-> 1000]}
PaymentRefs == {"PAY-0000000A", "PAY-0000000B"}

\* Request bodies of POST /auth/signup and POST /auth/signin.
SignUpPayloads ==
    {[name |-> "ann", email |-> "a@x.io", password |-> "pw1"],
     [name |-> "bob", email |-> "a@x.io", password |-> "pw2"]}
SignInPayloads ==
    {[email |-> "a@x.io", password |-> "pw1"],
     [email |-> "a@x.io", password |-> "pw2"],
     [email |-> "b@x.io", password |-> "pw1"]}

\* ------------------------------------------------------------- utilities
\* bson ObjectId(id_str): raises on anything but a hex string.
WellFormed(s) == s \in DOMAIN HexValue

\* oid(id_str): the ObjectId, or 0 where the code raises 400 "Invalid id".
oid(s) == IF WellFormed(s) THEN HexValue[s] ELSE 0

\* str(ObjectId): the lowercase hex rendering.
str(o) == CHOOSE s \in {"aa", "bb", "cc", "dd", "ee"} : HexValue[s] = o

\* round2 that cuts the digits off instead of rounding to the nearest cent.
round2_truncate(x) == x - (x % 10)

\* round(x, 2) on an amount in mills: nearest multiple of 10 mills, ties to
\* the even cent.
round2(x) ==
    LET r == x % 10
        lo == x - r
    IN  IF r < 5 THEN lo
        ELSE IF r > 5 THEN lo + 10
        ELSE IF (lo \div 10) % 2 = 0 THEN lo ELSE lo + 10

\* ------------------------------------------------------------------ state
VARIABLES product, cart, order, user, nextOid, pc, local, resp, nreq, submitted

vars == <<product, cart, order, user, nextOid, pc, local, resp, nreq, submitted>>

NoLocal == [op |-> "none"]
NoResp == [op |-> "none", status |-> 0]

Init ==
    /\ product = <<>>
    /\ cart = <<>>
    /\ order = <<>>
    /\ user = <<>>
    /\ nextOid = 1
    /\ pc = [t \in Threads |-> "idle"]
    /\ local = [t \in Threads |-> NoLocal]
    /\ resp = NoResp
    /\ nreq = 0
    /\ submitted = [u \in {s \in UserIdInputs : WellFormed(s)} |->
                        [p \in {s \in ProductIdInputs : WellFormed(s)} |-> [n |-> 0, sum |-> 0]]]

\* ------------------------------------------------------ store operations
\* create_document(collection, doc): insert, the store assigns the id.
create_document(coll, doc) == Append(coll, doc)

\* FindProduct that drops the _id filter and takes the first product there is.
FindProduct_first(o) == IF product # <<>> THEN 1 ELSE 0

\* db[coll].find_one({"_id": o}) on the product collection: index or 0.
FindProduct(o) ==
    IF \E i \in 1..Len(product) : product[i].id = o
    THEN CHOOSE i \in 1..Len(product) : product[i].id = o
    ELSE 0

\* FindCart that drops the user_id filter and takes the first cart there is.
FindCart_any(u) == IF cart # <<>> THEN 1 ELSE 0

\* db["cart"].find_one({"user_id": u}): the first match in store order.
FindCart(u) ==
    IF \E i \in 1..Len(cart) : cart[i].user_id = u
    THEN CHOOSE i \in 1..Len(cart) :
            /\ cart[i].user_id = u
            /\ \A j \in 1..(i - 1) : cart[j].user_id # u
    ELSE 0

\* ProductMissing that lets every well-formed product_id through.
ProductMissing_never(o) == FALSE

\* Line 140 of add_to_cart: "if not product".
ProductMissing(o) == FindProduct(o) = 0

\* CartIsEmpty that tests only for the missing document.
CartIsEmpty_absent_only(c) == c = 0

\* Line 189 of checkout: "if not cart or not cart.get('items')", c being the
\* index find_one returned (0: no document).
CartIsEmpty(c) == c = 0 \/ cart[c].items = <<>>

\* ClearedCart that deletes the user's cart document.
ClearedCart_delete(u) == SelectSeq(cart, LAMBDA d : d.id # FindCart(u))

\* ClearedCart that leaves the cart as it is.
ClearedCart_noop(u) == cart

\* Line 222 of checkout: update_one({"user_id": u}, {"$set": {"items": []}})
\* changes the first document that matches.
ClearedCart(u) ==
    IF FindCart(u) = 0 THEN cart
    ELSE [cart EXCEPT ![FindCart(u)].items = <<>>]

\* ---------------------------------------------------------------- catalog
\* POST /products
create_product(p) ==
    /\ nextOid <= MaxProducts
    /\ product' = create_document(product, [id |-> nextOid, title |-> p.title, price |-> p.price])
    /\ nextOid' = nextOid + 1
    /\ UNCHANGED <<cart, order, user, pc, local, resp, nreq, submitted>>

\* ------------------------------------------------------------------- cart
\* MergeItems that appends an entry on every call.
MergeItems_always_append(items, p, q) ==
    Append(items, [product_id |-> p, quantity |-> q])

\* MergeItems with the matching entry's quantity overwritten, not raised.
MergeItems_overwrite(items, p, q) ==
    LET bumped == [i \in 1..Len(items) |->
                      IF items[i].product_id = p
                      THEN [items[i] EXCEPT !.quantity = q]
                      ELSE items[i]]
        updated == \E i \in 1..Len(items) : items[i].product_id = p
    IN  IF updated THEN bumped
        ELSE Append(bumped, [product_id |-> p, quantity |-> q])

\* Lines 149-155 of add_to_cart: raise the quantity of every entry whose
\* product_id string equals the payload's, else append a new entry.
MergeItems(items, p, q) ==
    LET bumped == [i \in 1..Len(items) |->
                      IF items[i].product_id = p
                      THEN [items[i] EXCEPT !.quantity = @ + q]
                      ELSE items[i]]
        updated == \E i \in 1..Len(items) : items[i].product_id = p
    IN  IF updated THEN bumped
        ELSE Append(bumped, [product_id |-> p, quantity |-> q])

\* resp is the response the server sent last, with the request body it
\* answers.
Reply(op, status, detail, payload, body) ==
    resp' = [op |-> op, status |-> status, detail |-> detail,
             payload |-> payload, body |-> body]

\* The ledger of the quantities submitted by add_to_cart calls that returned
\* ok, per user and product_id string, since the user's last checkout.
Submit(u, p, q) ==
    submitted' = [submitted EXCEPT ![u][p] = [n |-> @.n + 1, sum |-> @.sum + q]]

NoBody == [ok |-> FALSE]

\* POST /cart/add, lines 137-143: validate both ids, resolve the product,
\* read the user's cart.
add_to_cart_read(t, payload) ==
    /\ pc[t] = "idle"
    /\ nreq < MaxRequests
    /\ nreq' = nreq + 1
    /\ UNCHANGED <<product, cart, order, user, nextOid, submitted>>
    /\ IF ~WellFormed(payload.user_id) \/ ~WellFormed(payload.product_id)
       THEN /\ Reply("add_to_cart", 400, "Invalid id", payload, NoBody)
            /\ UNCHANGED <<pc, local>>
       ELSE IF ProductMissing(oid(payload.product_id))
       THEN /\ Reply("add_to_cart", 404, "Product not found", payload, NoBody)
            /\ UNCHANGED <<pc, local>>
       ELSE /\ pc' = [pc EXCEPT ![t] = "add_write"]
            /\ local' = [local EXCEPT ![t] =
                   [op |-> "add_to_cart", payload |-> payload,
                    found |-> FindCart(payload.user_id),
                    items |-> IF FindCart(payload.user_id) = 0 THEN <<>>
                              ELSE cart[FindCart(payload.user_id)].items]]
            /\ UNCHANGED resp

\* add_to_cart_write that merges into the items the cart holds at the time of
\* the write (an atomic per-item increment), not into the items it read.
add_to_cart_write_atomic(t) ==
    /\ pc[t] = "add_write"
    /\ pc' = [pc EXCEPT ![t] = "idle"]
    /\ local' = [local EXCEPT ![t] = NoLocal]
    /\ UNCHANGED <<product, order, user, nextOid, nreq>>
    /\ LET l == local[t]
           u == l.payload.user_id
           p == l.payload.product_id
           q == l.payload.quantity
       IN  IF l.found = 0
           THEN IF q < 1
                THEN /\ Reply("add_to_cart", 500, "ValidationError", l.payload, NoBody)
                     /\ UNCHANGED <<cart, submitted>>
                ELSE /\ cart' = create_document(cart,
                            [id |-> Len(cart) + 1, user_id |-> u,
                             items |-> <<[product_id |-> p, quantity |-> q]>>])
                     /\ Submit(u, p, q)
                     /\ Reply("add_to_cart", 200, "ok", l.payload, [ok |-> TRUE])
           ELSE /\ cart' = [cart EXCEPT ![l.found].items = MergeItems(cart[l.found].items, p, q)]
                /\ Submit(u, p, q)
                /\ Reply("add_to_cart", 200, "ok", l.payload, [ok |-> TRUE])

\* POST /cart/add, lines 144-157: create the cart (the Cart schema rejects an
\* entry with quantity < 1, which surfaces as a 500), or merge into the items
\* that were read and write the whole items field back to that document.
add_to_cart_write(t) ==
    /\ pc[t] = "add_write"
    /\ pc' = [pc EXCEPT ![t] = "idle"]
    /\ local' = [local EXCEPT ![t] = NoLocal]
    /\ UNCHANGED <<product, order, user, nextOid, nreq>>
    /\ LET l == local[t]
           u == l.payload.user_id
           p == l.payload.product_id
           q == l.payload.quantity
       IN  IF l.found = 0
           THEN IF q < 1
                THEN /\ Reply("add_to_cart", 500, "ValidationError", l.payload, NoBody)
                     /\ UNCHANGED <<cart, submitted>>
                ELSE /\ cart' = create_document(cart,
                            [id |-> Len(cart) + 1, user_id |-> u,
                             items |-> <<[product_id |-> p, quantity |-> q]>>])
                     /\ Submit(u, p, q)
                     /\ Reply("add_to_cart", 200, "ok", l.payload, [ok |-> TRUE])
           ELSE /\ cart' = [cart EXCEPT ![l.found].items = MergeItems(l.items, p, q)]
                /\ Submit(u, p, q)
                /\ Reply("add_to_cart", 200, "ok", l.payload, [ok |-> TRUE])

\* Request bodies of POST /cart/add: every well-formed combination, and one
\* body for each way an id can be malformed.
AddPayloads ==
    [user_id : {u \in UserIdInputs : WellFormed(u)}, product_id : ProductIdInputs,
     quantity : QuantityInputs]
    \cup {[user_id |-> "zz", product_id |-> "aa", quantity |-> 2],
          [user_id |-> "zz", product_id |-> "zz", quantity |-> 2]}

\* ------------------------------------------------------------- arithmetic
RECURSIVE SumSubtotals(_)
SumSubtotals(lines) ==
    IF lines = <<>> THEN 0
    ELSE Head(lines).subtotal + SumSubtotals(Tail(lines))

\* ---------------------------------------------------------------- get_cart
Resolves(item) == WellFormed(item.product_id) /\ FindProduct(oid(item.product_id)) # 0

\* CartLines that keeps a line, priced 0, for an item whose product is gone.
CartLines_keep_missing(items) ==
    [i \in 1..Len(items) |->
        IF Resolves(items[i])
        THEN LET prod == product[FindProduct(oid(items[i].product_id))]
             IN  [product_id |-> items[i].product_id, title |-> prod.title,
                  price |-> prod.price, quantity |-> items[i].quantity,
                  subtotal |-> prod.price * items[i].quantity]
        ELSE [product_id |-> items[i].product_id, title |-> "",
              price |-> 0, quantity |-> items[i].quantity, subtotal |-> 0]]

\* Lines 167-179 of get_cart: one line per item whose product resolves, in
\* cart order, at the product's current title and price.
CartLines(items) ==
    LET kept == SelectSeq(items, Resolves)
    IN  [i \in 1..Len(kept) |->
            LET prod == product[FindProduct(oid(kept[i].product_id))]
            IN  [product_id |-> kept[i].product_id, title |-> prod.title,
                 price |-> prod.price, quantity |-> kept[i].quantity,
                 subtotal |-> prod.price * kept[i].quantity]]

\* GET /cart/{user_id}: reads only.  The user_id is not parsed as an id.
get_cart(t, u) ==
    /\ pc[t] = "idle"
    /\ nreq < MaxRequests
    /\ nreq' = nreq + 1
    /\ UNCHANGED <<product, cart, order, user, nextOid, pc, local, submitted>>
    /\ LET c == FindCart(u)
       IN  IF c = 0
           THEN Reply("get_cart", 200, "ok", [user_id |-> u], [items |-> <<>>, total |-> 0])
           ELSE IF \E i \in 1..Len(cart[c].items) : ~WellFormed(cart[c].items[i].product_id)
           THEN Reply("get_cart", 400, "Invalid id", [user_id |-> u], NoBody)
           ELSE Reply("get_cart", 200, "ok", [user_id |-> u],
                      [items |-> CartLines(cart[c].items),
                       total |-> round2(SumSubtotals(CartLines(cart[c].items)))])

\* ---------------------------------------------------------------- checkout
\* BuildOrder that puts each order item in front of the ones built before.
RECURSIVE BuildOrder_prepend(_, _)
BuildOrder_prepend(rest, acc) ==
    IF rest = <<>> THEN [ok |-> TRUE, items |-> acc]
    ELSE IF ~WellFormed(Head(rest).product_id)
    THEN [ok |-> FALSE, detail |-> "Invalid id"]
    ELSE IF FindProduct(oid(Head(rest).product_id)) = 0
    THEN [ok |-> FALSE, detail |-> "Invalid product in cart"]
    ELSE LET prod == product[FindProduct(oid(Head(rest).product_id))]
         IN  BuildOrder_prepend(Tail(rest),
                 <<[product_id |-> str(prod.id), title |-> prod.title,
                    price |-> prod.price,
                    quantity |-> Head(rest).quantity,
                    subtotal |-> prod.price * Head(rest).quantity]>> \o acc)

\* BuildOrder that skips an item whose product does not resolve, as get_cart
\* does, and so builds a partial order.
RECURSIVE BuildOrder_skip_missing(_, _)
BuildOrder_skip_missing(rest, acc) ==
    IF rest = <<>> THEN [ok |-> TRUE, items |-> acc]
    ELSE IF ~WellFormed(Head(rest).product_id)
    THEN [ok |-> FALSE, detail |-> "Invalid id"]
    ELSE IF FindProduct(oid(Head(rest).product_id)) = 0
    THEN BuildOrder_skip_missing(Tail(rest), acc)
    ELSE LET prod == product[FindProduct(oid(Head(rest).product_id))]
         IN  BuildOrder_skip_missing(Tail(rest),
                 Append(acc, [product_id |-> str(prod.id), title |-> prod.title,
                              price |-> prod.price,
                              quantity |-> Head(rest).quantity,
                              subtotal |-> prod.price * Head(rest).quantity]))

\* Lines 194-206 of checkout: the loop over the cart items.  It raises at the
\* first item whose product does not resolve, else it returns the order
\* items, each a copy of the product's title and price.
RECURSIVE BuildOrder(_, _)
BuildOrder(rest, acc) ==
    IF rest = <<>> THEN [ok |-> TRUE, items |-> acc]
    ELSE IF ~WellFormed(Head(rest).product_id)
    THEN [ok |-> FALSE, detail |-> "Invalid id"]
    ELSE IF FindProduct(oid(Head(rest).product_id)) = 0
    THEN [ok |-> FALSE, detail |-> "Invalid product in cart"]
    ELSE LET prod == product[FindProduct(oid(Head(rest).product_id))]
         IN  BuildOrder(Tail(rest),
                 Append(acc, [product_id |-> str(prod.id), title |-> prod.title,
                              price |-> prod.price,
                              quantity |-> Head(rest).quantity,
                              subtotal |-> prod.price * Head(rest).quantity]))

\* POST /checkout, lines 188-207: read the cart, resolve every product, add
\* up the amount.
checkout_read(t, u) ==
    /\ pc[t] = "idle"
    /\ nreq < MaxRequests
    /\ nreq' = nreq + 1
    /\ UNCHANGED <<product, cart, order, user, nextOid, submitted>>
    /\ LET c == FindCart(u)
           built == BuildOrder(cart[c].items, <<>>)
       IN  IF CartIsEmpty(c)
           THEN /\ Reply("checkout", 400, "Cart is empty", [user_id |-> u], NoBody)
                /\ UNCHANGED <<pc, local>>
           ELSE IF ~built.ok
           THEN /\ Reply("checkout", 400, built.detail, [user_id |-> u], NoBody)
                /\ UNCHANGED <<pc, local>>
           ELSE /\ pc' = [pc EXCEPT ![t] = "checkout_order"]
                /\ local' = [local EXCEPT ![t] =
                       [op |-> "checkout", payload |-> [user_id |-> u],
                        read |-> cart[c].items,
                        items |-> built.items,
                        amount |-> round2(SumSubtotals(built.items))]]
                /\ UNCHANGED resp

\* checkout_order that reads the cart again and gives up, with no order, when
\* the cart has been emptied since the first read.
checkout_order_recheck(t, ref) ==
    /\ pc[t] = "checkout_order"
    /\ UNCHANGED <<product, cart, user, nextOid, nreq, submitted>>
    /\ IF CartIsEmpty(FindCart(local[t].payload.user_id))
       THEN /\ pc' = [pc EXCEPT ![t] = "idle"]
            /\ local' = [local EXCEPT ![t] = NoLocal]
            /\ Reply("checkout", 400, "Cart is empty", local[t].payload, NoBody)
            /\ order' = order
       ELSE /\ pc' = [pc EXCEPT ![t] = "checkout_clear"]
            /\ order' = create_document(order,
                   [id |-> Len(order) + 1, user_id |-> local[t].payload.user_id,
                    items |-> local[t].items, amount |-> local[t].amount,
                    currency |-> "usd", status |-> "paid", payment_ref |-> ref])
            /\ local' = [local EXCEPT ![t] =
                   [op |-> "checkout", payload |-> local[t].payload,
                    read |-> local[t].read, order_id |-> Len(order) + 1,
                    amount |-> local[t].amount, payment_ref |-> ref]]
            /\ UNCHANGED resp

\* checkout_order that empties the cart in the same step as the insert.
checkout_order_transactional(t, ref) ==
    /\ pc[t] = "checkout_order"
    /\ pc' = [pc EXCEPT ![t] = "checkout_clear"]
    /\ order' = create_document(order,
           [id |-> Len(order) + 1, user_id |-> local[t].payload.user_id,
            items |-> local[t].items, amount |-> local[t].amount,
            currency |-> "usd", status |-> "paid", payment_ref |-> ref])
    /\ cart' = ClearedCart(local[t].payload.user_id)
    /\ local' = [local EXCEPT ![t] =
           [op |-> "checkout", payload |-> local[t].payload, read |-> local[t].read,
            order_id |-> Len(order) + 1, amount |-> local[t].amount,
            payment_ref |-> ref]]
    /\ UNCHANGED <<product, user, nextOid, resp, nreq, submitted>>

\* checkout_order that leaves the order's status at the schema's default.
checkout_order_pending(t, ref) ==
    /\ pc[t] = "checkout_order"
    /\ pc' = [pc EXCEPT ![t] = "checkout_clear"]
    /\ order' = create_document(order,
           [id |-> Len(order) + 1, user_id |-> local[t].payload.user_id,
            items |-> local[t].items, amount |-> local[t].amount,
            currency |-> "usd", status |-> "pending", payment_ref |-> ref])
    /\ local' = [local EXCEPT ![t] =
           [op |-> "checkout", payload |-> local[t].payload, read |-> local[t].read,
            order_id |-> Len(order) + 1, amount |-> local[t].amount,
            payment_ref |-> ref]]
    /\ UNCHANGED <<product, cart, user, nextOid, resp, nreq, submitted>>

\* POST /checkout, lines 210-219: draw the payment reference and insert the
\* order with status paid.
checkout_order(t, ref) ==
    /\ pc[t] = "checkout_order"
    /\ pc' = [pc EXCEPT ![t] = "checkout_clear"]
    /\ order' = create_document(order,
           [id |-> Len(order) + 1, user_id |-> local[t].payload.user_id,
            items |-> local[t].items, amount |-> local[t].amount,
            currency |-> "usd", status |-> "paid", payment_ref |-> ref])
    /\ local' = [local EXCEPT ![t] =
           [op |-> "checkout", payload |-> local[t].payload, read |-> local[t].read,
            order_id |-> Len(order) + 1, amount |-> local[t].amount,
            payment_ref |-> ref]]
    /\ UNCHANGED <<product, cart, user, nextOid, resp, nreq, submitted>>

\* POST /checkout, lines 222-224: set items = [] on the first cart document
\* of the user and return.
checkout_clear(t) ==
    /\ pc[t] = "checkout_clear"
    /\ pc' = [pc EXCEPT ![t] = "idle"]
    /\ local' = [local EXCEPT ![t] = NoLocal]
    /\ LET u == local[t].payload.user_id
       IN  /\ cart' = ClearedCart(u)
           /\ submitted' = [submitted EXCEPT ![u] =
                               [p \in DOMAIN @ |-> [n |-> 0, sum |-> 0]]]
    /\ Reply("checkout", 200, "ok", local[t].payload,
             [order_id |-> local[t].order_id, amount |-> local[t].amount,
              currency |-> "usd", payment_ref |-> local[t].payment_ref])
    /\ UNCHANGED <<product, order, user, nextOid, nreq>>

\* -------------------------------------------------------------------- auth
\* hash_password(pw): the sha256 digest of pw followed by the salt, kept as
\* the pair of the digest's name and its input (the digest is one-way and
\* taken to be collision-free).
hash_password(pw) == <<"sha256", pw, "flames_saas">>

\* The token of both auth responses: hash_password(email + ":" + password).
Token(email, password) == hash_password(<<email, ":", password>>)

\* FindUser that drops the email filter and takes the first user there is.
FindUser_any(e) == IF user # <<>> THEN 1 ELSE 0

\* db["user"].find_one({"email": e}): the first match in store order, or 0.
FindUser(e) ==
    IF \E i \in 1..Len(user) : user[i].email = e
    THEN CHOOSE i \in 1..Len(user) :
            /\ user[i].email = e
            /\ \A j \in 1..(i - 1) : user[j].email # e
    ELSE 0

\* POST /auth/signup, lines 95-97: look the email up, refuse a taken one.
signup_read(t, payload) ==
    /\ pc[t] = "idle"
    /\ nreq < MaxRequests
    /\ nreq' = nreq + 1
    /\ UNCHANGED <<product, cart, order, user, nextOid, submitted>>
    /\ IF FindUser(payload.email) # 0
       THEN /\ Reply("signup", 400, "Email already registered", payload, NoBody)
            /\ UNCHANGED <<pc, local>>
       ELSE /\ pc' = [pc EXCEPT ![t] = "signup_write"]
            /\ local' = [local EXCEPT ![t] = [op |-> "signup", payload |-> payload]]
            /\ UNCHANGED resp

\* POST /auth/signup, lines 98-107: insert the user with the password's
\* digest and answer with the token.
signup_write(t) ==
    /\ pc[t] = "signup_write"
    /\ pc' = [pc EXCEPT ![t] = "idle"]
    /\ local' = [local EXCEPT ![t] = NoLocal]
    /\ LET payload == local[t].payload
       IN  /\ user' = create_document(user,
                  [id |-> Len(user) + 1, name |-> payload.name,
                   email |-> payload.email,
                   password_hash |-> hash_password(payload.password),
                   is_active |-> TRUE, role |-> "user"])
           /\ Reply("signup", 200, "ok", payload,
                    [user_id |-> Len(user) + 1, name |-> payload.name,
                     email |-> payload.email,
                     token |-> Token(payload.email, payload.password)])
    /\ UNCHANGED <<product, cart, order, nextOid, nreq, submitted>>

\* POST /auth/signin: refuse an unknown email or a digest that differs from
\* the stored one, else answer from the stored document.
signin(t, payload) ==
    /\ pc[t] = "idle"
    /\ nreq < MaxRequests
    /\ nreq' = nreq + 1
    /\ UNCHANGED <<product, cart, order, user, nextOid, pc, local, submitted>>
    /\ LET i == FindUser(payload.email)
       IN  IF i = 0 \/ user[i].password_hash # hash_password(payload.password)
           THEN Reply("signin", 401, "Invalid credentials", payload, NoBody)
           ELSE Reply("signin", 200, "ok", payload,
                      [user_id |-> user[i].id, name |-> user[i].name,
                       email |-> user[i].email,
                       token |-> Token(payload.email, payload.password)])

\* ------------------------------------------------------------- environment
\* The store is shared with other clients: a product document is removed
\* from the product collection behind the program's back.
product_removed(i) ==
    /\ i \in 1..Len(product)
    /\ product' = [j \in 1..(Len(product) - 1) |->
                      IF j < i THEN product[j] ELSE product[j + 1]]
    /\ UNCHANGED <<cart, order, user, nextOid, pc, local, resp, nreq, submitted>>

\* ------------------------------------------------------------- scheduling
\* A request is served by the lowest-numbered idle worker.
Free(t) == pc[t] = "idle" /\ \A s \in Threads : s < t => pc[s] # "idle"

AllIdle == \A t \in Threads : pc[t] = "idle"

Next ==
    \/ \E p \in ProductInputs : create_product(p)
    \/ \E t \in Threads, payload \in AddPayloads : Free(t) /\ add_to_cart_read(t, payload)
    \/ \E t \in Threads : add_to_cart_write(t)
    \/ \E t \in Threads, u \in UserIdInputs : Free(t) /\ get_cart(t, u)
    \/ \E t \in Threads, u \in UserIdInputs : Free(t) /\ checkout_read(t, u)
    \/ \E t \in Threads, ref \in PaymentRefs : checkout_order(t, ref)
    \/ \E t \in Threads : checkout_clear(t)

Spec == Init /\ [][Next]_vars

\* Every handler runs to completion before the next request is served.
NextSeq ==
    \/ AllIdle /\ \E p \in ProductInputs : create_product(p)
    \/ AllIdle /\ \E t \in Threads, payload \in AddPayloads : Free(t) /\ add_to_cart_read(t, payload)
    \/ \E t \in Threads : add_to_cart_write(t)
    \/ AllIdle /\ \E t \in Threads, u \in UserIdInputs : Free(t) /\ get_cart(t, u)
    \/ AllIdle /\ \E t \in Threads, u \in UserIdInputs : Free(t) /\ checkout_read(t, u)
    \/ \E t \in Threads, ref \in PaymentRefs : checkout_order(t, ref)
    \/ \E t \in Threads : checkout_clear(t)

SpecSeq == Init /\ [][NextSeq]_vars

\* The program, one request at a time, next to other clients of the store.
NextEnv ==
    \/ NextSeq
    \/ \E i \in 1..MaxProducts : product_removed(i)

SpecEnv == Init /\ [][NextEnv]_vars

\* The cart and checkout handlers next to the auth handlers.
NextAuth ==
    \/ Next
    \/ \E t \in Threads, payload \in SignUpPayloads : Free(t) /\ signup_read(t, payload)
    \/ \E t \in Threads : signup_write(t)
    \/ \E t \in Threads, payload \in SignInPayloads : Free(t) /\ signin(t, payload)

SpecAuth == Init /\ [][NextAuth]_vars

\* ------------------------------------------------------------ observation
ValidUsers == {u \in UserIdInputs : WellFormed(u)}
ValidProductIds == {p \in ProductIdInputs : WellFormed(p)}

\* The positions of the entries of items that carry product_id p.
Entries(items, p) == {i \in 1..Len(items) : items[i].product_id = p}

\* A request that began and returned within this step.
OneStepRequest == nreq' = nreq + 1 /\ pc' = pc

\* This step begins a checkout for user u.
CheckoutBegan(u) ==
    /\ nreq' = nreq + 1
    /\ \/ pc' = pc /\ resp'.op = "checkout" /\ resp'.payload.user_id = u
       \/ \E t \in Threads : /\ pc[t] = "idle" /\ pc'[t] = "checkout_order"
                             /\ local'[t].payload.user_id = u

\* This step is the return of a successful checkout by worker t.
CheckoutReturned(t) == pc[t] = "checkout_clear" /\ pc'[t] = "idle"

\* The price the catalog has for a cart item.
PriceOf(item) == product[FindProduct(oid(item.product_id))].price

RECURSIVE ExactTotal(_)
ExactTotal(items) ==
    IF items = <<>> THEN 0
    ELSE PriceOf(Head(items)) * Head(items).quantity + ExactTotal(Tail(items))

\* a is x rounded to 2 decimals: a whole number of cents, at most half a
\* cent away from x.
IsRounded(a, x) == a % 10 = 0 /\ a - x <= 5 /\ x - a <= 5

\* This step begins an add_to_cart call with the given request body.
AddBegan(payload) ==
    /\ nreq' = nreq + 1
    /\ \/ pc' = pc /\ resp'.op = "add_to_cart" /\ resp'.payload = payload
       \/ \E t \in Threads : /\ pc[t] = "idle" /\ pc'[t] = "add_write"
                             /\ local'[t].payload = payload

\* This step is a get_cart call for user u.
GetCartStep(u) ==
    OneStepRequest /\ resp'.op = "get_cart" /\ resp'.payload.user_id = u

\* The cart item's product is in the catalog.
InCatalog(item) ==
    \E i \in 1..Len(product) : product[i].id = HexValue[item.product_id]

\* The items list of the user's cart, empty when there is no cart.
ItemsOf(u) == IF FindCart(u) = 0 THEN <<>> ELSE cart[FindCart(u)].items

RECURSIVE LinesTotal(_)
LinesTotal(lines) ==
    IF lines = <<>> THEN 0
    ELSE Head(lines).price * Head(lines).quantity + LinesTotal(Tail(lines))

\* The body of a get_cart response has one line per cart item whose product
\* is in the catalog, in cart order, at the catalog's price.
LinesMatch(lines, items) ==
    LET kept == SelectSeq(items, InCatalog)
    IN  /\ Len(lines) = Len(kept)
        /\ \A i \in 1..Len(kept) :
              /\ lines[i].product_id = kept[i].product_id
              /\ lines[i].quantity = kept[i].quantity
              /\ lines[i].price = PriceOf(kept[i])

\* ----------------------------------------------------------------- claims
\* C1: when add_to_cart calls run one after the other, a user's cart holds
\* at most one entry per product_id, an entry exactly for the product_ids
\* that were submitted with success since the cart was created or emptied
\* by checkout, and the entry's quantity is the sum of the quantities
\* submitted for that product_id.
C1_MergedQuantities ==
    AllIdle =>
      \A u \in ValidUsers : \A p \in ValidProductIds :
        LET items == IF FindCart(u) = 0 THEN <<>> ELSE cart[FindCart(u)].items
        IN  /\ Cardinality(Entries(items, p)) <= 1
            /\ (Entries(items, p) = {}) <=> (submitted[u][p].n = 0)
            /\ \A i \in Entries(items, p) : items[i].quantity = submitted[u][p].sum

C1_Witness ==
    /\ AllIdle
    /\ \E u \in ValidUsers : \E p \in ValidProductIds :
         /\ submitted[u][p].n >= 2
         /\ FindCart(u) # 0
         /\ \E i \in Entries(cart[FindCart(u)].items, p) :
              cart[FindCart(u)].items[i].quantity = submitted[u][p].sum

\* C2: a checkout that runs alone and returns success has created an order
\* for its user whose amount is the sum of price * quantity over the cart's
\* items at the catalog's prices, rounded to 2 decimals, and whose status is
\* paid; when it returns, the user's cart has no items.
C2_CheckoutAmount ==
    [][\A t \in Threads : CheckoutReturned(t) =>
         LET u == local[t].payload.user_id
             o == order[resp'.body.order_id]
         IN  /\ resp'.op = "checkout" /\ resp'.status = 200
             /\ o.user_id = u
             /\ o.status = "paid"
             /\ resp'.body.amount = o.amount
             /\ IsRounded(o.amount, ExactTotal(cart[FindCart(u)].items))
             /\ cart'[FindCart(u)].items = <<>>]_vars

\* A returned checkout whose amount differs from the unrounded sum.
C2_Witness ==
    /\ AllIdle
    /\ resp.op = "checkout" /\ resp.status = 200
    /\ resp.body.amount # SumSubtotals(order[resp.body.order_id].items)
    /\ cart[FindCart(resp.payload.user_id)].items = <<>>

\* C3: a checkout for a user whose cart is absent or has no items fails
\* with 400 "Cart is empty", and the step creates no order and leaves the
\* cart collection as it was.
C3_EmptyCartRejected ==
    [][\A u \in UserIdInputs :
         (CheckoutBegan(u) /\ (FindCart(u) = 0 \/ cart[FindCart(u)].items = <<>>)) =>
            /\ pc' = pc
            /\ resp'.status = 400 /\ resp'.detail = "Cart is empty"
            /\ order' = order /\ cart' = cart]_vars

\* A checkout was refused on a cart document that exists and has no items.
C3_Witness ==
    /\ resp.op = "checkout" /\ resp.status = 400 /\ resp.detail = "Cart is empty"
    /\ FindCart(resp.payload.user_id) # 0
    /\ cart[FindCart(resp.payload.user_id)].items = <<>>

\* C4: a checkout that begins right after a successful checkout of the same
\* user, handlers running one at a time and nothing else served in between,
\* fails with 400 "Cart is empty"; the pair leaves exactly one order, the
\* first call's.
C4_SecondCheckoutFails ==
    [][\A u \in UserIdInputs :
         (/\ CheckoutBegan(u)
          /\ AllIdle
          /\ resp.op = "checkout" /\ resp.status = 200
          /\ resp.payload.user_id = u) =>
            /\ pc' = pc
            /\ resp'.status = 400 /\ resp'.detail = "Cart is empty"
            /\ order' = order
            /\ Len(order') = resp.body.order_id
            /\ Cardinality({i \in 1..Len(order') : order'[i].user_id = u
                                /\ order'[i].id = resp.body.order_id}) = 1]_vars

\* The second of two back-to-back checkouts was refused, one order exists.
C4_Witness ==
    /\ AllIdle
    /\ resp.op = "checkout" /\ resp.status = 400 /\ resp.detail = "Cart is empty"
    /\ Len(order) = 1
    /\ order[1].user_id = resp.payload.user_id
    /\ nreq = 3

\* C5: a checkout of a cart in which some product_id does not resolve in the
\* catalog fails with 400 "Invalid product in cart", and the step creates no
\* order and leaves the cart collection as it was.
C5_AllOrNothing ==
    [][\A u \in UserIdInputs :
         (CheckoutBegan(u) /\ \E i \in 1..Len(ItemsOf(u)) : ~InCatalog(ItemsOf(u)[i])) =>
            /\ pc' = pc
            /\ resp'.status = 400 /\ resp'.detail = "Invalid product in cart"
            /\ order' = order /\ cart' = cart]_vars

\* A checkout was refused on a cart with one item that resolves and one that
\* does not.
C5_Witness ==
    /\ resp.op = "checkout" /\ resp.status = 400
    /\ resp.detail = "Invalid product in cart"
    /\ \E i, j \in 1..Len(ItemsOf(resp.payload.user_id)) :
         /\ InCatalog(ItemsOf(resp.payload.user_id)[i])
         /\ ~InCatalog(ItemsOf(resp.payload.user_id)[j])
    /\ order = <<>>

\* C6: an add_to_cart call with a malformed user_id or product_id fails with
\* 400, one with a well-formed product_id that is not in the catalog fails
\* with 404, and in both cases the step leaves the cart collection as it was.
C6_AddRejected ==
    [][\A payload \in AddPayloads : AddBegan(payload) =>
         /\ (payload.user_id \notin DOMAIN HexValue \/ payload.product_id \notin DOMAIN HexValue) =>
               /\ pc' = pc /\ resp'.status = 400 /\ resp'.detail = "Invalid id"
               /\ cart' = cart
         /\ (/\ payload.user_id \in DOMAIN HexValue
             /\ payload.product_id \in DOMAIN HexValue
             /\ ~InCatalog(payload)) =>
               /\ pc' = pc /\ resp'.status = 404 /\ resp'.detail = "Product not found"
               /\ cart' = cart]_vars

\* An add_to_cart for an unknown product was refused while a cart exists.
C6_Witness ==
    /\ resp.op = "add_to_cart" /\ resp.status = 404
    /\ FindCart(resp.payload.user_id) # 0

\* C7: in every state, also under interleaved add_to_cart calls, no cart
\* document holds two entries with the same product_id.
C7_NoDuplicateEntries ==
    \A c \in 1..Len(cart) : \A i, j \in 1..Len(cart[c].items) :
        cart[c].items[i].product_id = cart[c].items[j].product_id => i = j

\* Two add_to_cart calls for one product interleaved (one update was lost)
\* and the cart still has a single entry for it.
C7_Witness ==
    \E u \in ValidUsers : \E p \in ValidProductIds :
        /\ submitted[u][p].n >= 2
        /\ Cardinality(Entries(ItemsOf(u), p)) = 1
        /\ \E i \in Entries(ItemsOf(u), p) :
             ItemsOf(u)[i].quantity # submitted[u][p].sum

\* C8: in every state, also under concurrent add_to_cart calls for a user
\* without a cart, the cart collection holds at most one document per
\* user_id.
C8_OneCartPerUser ==
    \A i, j \in 1..Len(cart) : cart[i].user_id = cart[j].user_id => i = j

\* C9: every entry stored in a cart has quantity >= 1, whatever integer
\* quantities the add_to_cart requests carry.
C9_QuantityAtLeastOne ==
    \A c \in 1..Len(cart) : \A i \in 1..Len(cart[c].items) :
        cart[c].items[i].quantity >= 1

\* C10 as stated: get_cart changes no collection; without a cart it returns
\* items = [] and total = 0; with a cart it returns one line per item whose
\* product resolves, and total equals the sum of the lines' price * quantity.
C10_TotalIsExactSum ==
    [][\A u \in UserIdInputs : GetCartStep(u) =>
         /\ product' = product /\ cart' = cart /\ order' = order
         /\ resp'.status = 200
         /\ FindCart(u) = 0 => resp'.body = [items |-> <<>>, total |-> 0]
         /\ FindCart(u) # 0 =>
               /\ LinesMatch(resp'.body.items, ItemsOf(u))
               /\ resp'.body.total = LinesTotal(resp'.body.items)]_vars

\* C10, amended: as above, with total equal to that sum rounded to 2
\* decimals.
C10_TotalIsRoundedSum ==
    [][\A u \in UserIdInputs : GetCartStep(u) =>
         /\ product' = product /\ cart' = cart /\ order' = order
         /\ resp'.status = 200
         /\ FindCart(u) = 0 => resp'.body = [items |-> <<>>, total |-> 0]
         /\ FindCart(u) # 0 =>
               /\ LinesMatch(resp'.body.items, ItemsOf(u))
               /\ IsRounded(resp'.body.total, LinesTotal(resp'.body.items))]_vars

\* A get_cart response that dropped the line of a vanished product and kept
\* another.
C10_Witness ==
    /\ resp.op = "get_cart" /\ resp.status = 200
    /\ Len(resp.body.items) >= 1
    /\ Len(resp.body.items) < Len(ItemsOf(resp.payload.user_id))

\* -------------------------------------------------------------- auth claims
\* This step begins a signup call with the given request body.
SignupBegan(payload) ==
    /\ nreq' = nreq + 1
    /\ \/ pc' = pc /\ resp'.op = "signup" /\ resp'.payload = payload
       \/ \E t \in Threads : /\ pc[t] = "idle" /\ pc'[t] = "signup_write"
                             /\ local'[t].payload = payload

\* This step is a signin call with the given request body.
SigninStep(payload) ==
    OneStepRequest /\ resp'.op = "signin" /\ resp'.payload = payload

\* No collection changes in this step.
CollectionsUnchanged ==
    user' = user /\ product' = product /\ cart' = cart /\ order' = order

\* C11: a signup whose email is already registered fails with 400 "Email
\* already registered"; a signin whose email is unknown, or whose password's
\* digest is the stored digest of no user with that email, fails with 401;
\* neither failure changes any collection.
C11_AuthFailures ==
    [][/\ \A payload \in SignUpPayloads :
            (SignupBegan(payload) /\ \E i \in 1..Len(user) : user[i].email = payload.email) =>
               /\ pc' = pc
               /\ resp'.status = 400 /\ resp'.detail = "Email already registered"
               /\ CollectionsUnchanged
       /\ \A payload \in SignInPayloads :
            (/\ SigninStep(payload)
             /\ \A i \in 1..Len(user) :
                   \/ user[i].email # payload.email
                   \/ user[i].password_hash # <<"sha256", payload.password, "flames_saas">>) =>
               /\ resp'.status = 401 /\ resp'.detail = "Invalid credentials"
               /\ CollectionsUnchanged]_vars

\* A second signup with a registered email was refused and added no user.
C11_Witness ==
    /\ resp.op = "signup" /\ resp.status = 400
    /\ Len(user) = 1
    /\ user[1].email = resp.payload.email
    /\ user[1].name # resp.payload.name

\* C12: in every state, also under concurrent signup calls that carry the
\* same email, no two user documents have the same email.
C12_UniqueEmail ==
    \A i, j \in 1..Len(user) : user[i].email = user[j].email => i = j

\* ------------------------------------------------------------ order claims
\* Worker t inserts its order in this step.
OrderInserted(t) == pc[t] = "checkout_order" /\ pc'[t] = "checkout_clear"

\* C13: the order collection changes only by the insert of one order with
\* status paid, made by a checkout that passed validation; every such
\* checkout makes that insert once and returns success with that order's
\* id; a checkout that fails inserts nothing; orders already there are never
\* modified or removed, and every order has status paid.
C13_OrdersOnlyGrow ==
    [][/\ \/ order' = order
          \/ /\ Len(order') = Len(order) + 1
             /\ SubSeq(order', 1, Len(order)) = order
             /\ Cardinality({t \in Threads : OrderInserted(t)}) = 1
       /\ \A i \in 1..Len(order') : order'[i].status = "paid"
       /\ \A t \in Threads :
            /\ (pc[t] = "checkout_order" /\ pc'[t] # pc[t]) =>
                  /\ OrderInserted(t)
                  /\ Len(order') = Len(order) + 1
                  /\ order'[Len(order')].user_id = local[t].payload.user_id
            /\ CheckoutReturned(t) =>
                  /\ order' = order
                  /\ resp'.status = 200
                  /\ Cardinality({i \in 1..Len(order) :
                        /\ order[i].id = resp'.body.order_id
                        /\ order[i].user_id = local[t].payload.user_id}) = 1
            /\ (pc[t] = "idle" /\ pc'[t] = "checkout_order") => order' = order
       /\ (OneStepRequest /\ resp'.op = "checkout") =>
              resp'.status = 400 /\ order' = order]_vars

\* An order exists and another handler has run to its end since.
C13_Witness ==
    /\ AllIdle
    /\ Len(order) = 1 /\ order[1].status = "paid"
    /\ resp.op \in {"add_to_cart", "get_cart", "signup", "signin"}

\* ------------------------------------------------------ concurrency claims
\* Worker t writes the cart and returns from add_to_cart in this step.
AddWritten(t) == pc[t] = "add_write" /\ pc'[t] = "idle"

\* The quantity that items holds for product_id p, over all its entries.
RECURSIVE QuantityIn(_, _)
QuantityIn(items, p) ==
    IF items = <<>> THEN 0
    ELSE (IF Head(items).product_id = p THEN Head(items).quantity ELSE 0)
         + QuantityIn(Tail(items), p)

\* C14: an add_to_cart call on an existing cart returns ok and writes the
\* whole items list it read with its own addition merged in, whatever the
\* cart holds at the time of the write; so two such calls that interleave
\* can both return ok with one addition lost (the witness).
C14_WritesWhatItRead ==
    [][\A t \in Threads : (AddWritten(t) /\ local[t].found # 0) =>
         LET read == local[t].items
             written == cart'[local[t].found].items
             p == local[t].payload.product_id
             q == local[t].payload.quantity
         IN  /\ resp'.op = "add_to_cart" /\ resp'.status = 200
             /\ \A x \in ValidProductIds :
                  /\ QuantityIn(written, x) =
                        QuantityIn(read, x) + (IF x = p THEN q ELSE 0)
                  /\ (Entries(written, x) = {}) <=>
                        (Entries(read, x) = {} /\ x # p)]_vars

\* Three add_to_cart calls of one user returned ok, the last two on the cart
\* the first created, and the cart lacks one of the last two additions.
C14_Witness ==
    /\ AllIdle
    /\ nreq = 3
    /\ Len(cart) = 1 /\ order = <<>>
    /\ resp.op = "add_to_cart" /\ resp.status = 200
    /\ LET u == cart[1].user_id
       IN  /\ submitted[u]["aa"].n + submitted[u]["AA"].n + submitted[u]["bb"].n = 3
           /\ \E p \in ValidProductIds :
                /\ submitted[u][p].n >= 1
                /\ QuantityIn(cart[1].items, p) # submitted[u][p].sum

\* C15: a checkout that passed validation inserts an order for the items it
\* read and returns success without reading the cart again; so two
\* checkouts of one user that both read the cart before either clears it
\* both succeed, with two orders for one cart's contents (the witness).
C15_NoRevalidation ==
    [][\A t \in Threads :
         /\ (pc[t] = "checkout_order" /\ pc'[t] # pc[t]) =>
               /\ OrderInserted(t)
               /\ Len(order') = Len(order) + 1
               /\ LET o == order'[Len(order')]
                      read == local[t].read
                  IN  /\ o.user_id = local[t].payload.user_id
                      /\ Len(o.items) = Len(read)
                      /\ \A i \in 1..Len(read) : o.items[i].quantity = read[i].quantity
         /\ CheckoutReturned(t) =>
               /\ resp'.op = "checkout" /\ resp'.status = 200
               /\ resp'.body.order_id = local[t].order_id
               /\ cart'[FindCart(local[t].payload.user_id)].items = <<>>]_vars

\* One add_to_cart and two checkouts ran: two orders with the same items for
\* the same user, and the cart is empty.
C15_Witness ==
    /\ AllIdle
    /\ nreq = 3
    /\ Len(order) = 2 /\ Len(cart) = 1
    /\ order[1].user_id = order[2].user_id
    /\ order[1].items = order[2].items
    /\ cart[1].items = <<>>

\* C16: checkout inserts the order first, in a step that leaves the cart as
\* it is, and empties the cart in a later step; while a checkout stands
\* between the two, its order exists, and a checkout of the same user that
\* begins then, the cart still holding the items, passes validation on the
\* same items.  A cart loses its items in no other step than a checkout's
\* return.
C16_OrderBeforeClear ==
    [][/\ \A t \in Threads :
            /\ OrderInserted(t) => cart' = cart
            /\ pc[t] = "checkout_clear" =>
                  /\ local[t].order_id \in 1..Len(order)
                  /\ order[local[t].order_id].user_id = local[t].payload.user_id
            /\ \A u \in UserIdInputs :
                 (/\ CheckoutBegan(u)
                  /\ pc[t] = "checkout_clear"
                  /\ local[t].payload.user_id = u
                  /\ ItemsOf(u) = local[t].read) =>
                     \E w \in Threads :
                        /\ pc[w] = "idle" /\ pc'[w] = "checkout_order"
                        /\ local'[w].read = local[t].read
       /\ (\E c \in 1..Len(cart) : cart[c].items # <<>> /\ cart'[c].items = <<>>) =>
              \E t \in Threads : CheckoutReturned(t)]_vars

\* Worker 1 stopped between its order insert and its cart clear; a second
\* checkout of the same user then ran to success on the same items.
C16_Witness ==
    /\ pc[1] = "checkout_clear" /\ pc[2] = "idle"
    /\ local[1].order_id = 1
    /\ resp.op = "checkout" /\ resp.status = 200 /\ resp.body.order_id = 2
    /\ order[1].user_id = order[2].user_id
    /\ order[1].items = order[2].items

\* ----------------------------------------------------- independence claims
\* The documents of user v in a collection, in store order.
DocsOf(coll, v) == SelectSeq(coll, LAMBDA d : d.user_id = v)

\* A sequence of documents without the ids the store assigned.
WithoutIds(docs) ==
    [i \in 1..Len(docs) |-> [f \in DOMAIN docs[i] \ {"id"} |-> docs[i][f]]]

\* The user whose handler worker t runs in this step.
Stepped(t) == pc'[t] # pc[t]
ActorOf(t) ==
    IF pc[t] = "idle" THEN local'[t].payload.user_id ELSE local[t].payload.user_id

\* The items of v's first cart, computed from v's cart documents alone.
OwnItems(v) ==
    IF DocsOf(cart, v) = <<>> THEN <<>> ELSE Head(DocsOf(cart, v)).items

\* C17: the cart and order documents of a user v change only in steps of
\* v's own handlers, and what a step of v's handler reads, writes and
\* answers is fixed by v's own documents, the catalog and the request, so it
\* is the same whatever other users' handlers have done.
C17_UsersIndependent ==
    [][/\ \A v \in UserIdInputs :
            (\/ DocsOf(cart', v) # DocsOf(cart, v)
             \/ DocsOf(order', v) # DocsOf(order, v)) =>
               \E t \in Threads : Stepped(t) /\ ActorOf(t) = v
       /\ \A t \in Threads : Stepped(t) =>
            LET v == ActorOf(t)
                mine == DocsOf(cart, v)
            IN  /\ (pc[t] = "idle" /\ pc'[t] = "add_write") =>
                      /\ local'[t].items = OwnItems(v)
                      /\ (local'[t].found = 0) <=> (mine = <<>>)
                      /\ local'[t].found # 0 => local'[t].found = Head(mine).id
                /\ (pc[t] = "add_write" /\ local[t].found = 0) =>
                      \/ DocsOf(cart', v) = mine /\ resp'.status = 500
                      \/ /\ resp'.status = 200
                         /\ WithoutIds(DocsOf(cart', v)) =
                              Append(WithoutIds(mine),
                                     [user_id |-> v,
                                      items |-> <<[product_id |-> local[t].payload.product_id,
                                                   quantity |-> local[t].payload.quantity]>>])
                /\ (pc[t] = "add_write" /\ local[t].found # 0) =>
                      /\ resp'.status = 200
                      /\ Len(DocsOf(cart', v)) = Len(mine)
                      /\ \A i \in 1..Len(mine) :
                           \/ mine[i].id = local[t].found
                           \/ DocsOf(cart', v)[i] = mine[i]
                /\ (pc[t] = "idle" /\ pc'[t] = "checkout_order") =>
                      OwnItems(v) # <<>> /\ local'[t].read = OwnItems(v)
                /\ pc[t] = "checkout_order" =>
                      WithoutIds(DocsOf(order', v)) =
                         Append(WithoutIds(DocsOf(order, v)),
                                [user_id |-> v, items |-> local[t].items,
                                 amount |-> local[t].amount, currency |-> "usd",
                                 status |-> "paid",
                                 payment_ref |-> local'[t].payment_ref])
                /\ pc[t] = "checkout_clear" =>
                      /\ resp'.status = 200 /\ resp'.body.amount = local[t].amount
                      /\ DocsOf(cart', v) =
                           [i \in 1..Len(mine) |->
                               IF i = 1 THEN [mine[i] EXCEPT !.items = <<>>] ELSE mine[i]]
       /\ \A v \in UserIdInputs :
            /\ (CheckoutBegan(v) /\ OwnItems(v) = <<>>) =>
                  pc' = pc /\ resp'.detail = "Cart is empty"
            /\ GetCartStep(v) => LinesMatch(resp'.body.items, OwnItems(v))]_vars

\* Two users have a cart each; one of them checked out, the other's cart
\* still holds its items.
C17_Witness ==
    /\ AllIdle
    /\ Len(order) = 1 /\ order[1].user_id = "dd"
    /\ ItemsOf("dd") = <<>>
    /\ ItemsOf("ee") # <<>>

\* C18: a cart document is never deleted and keeps its id and user_id; the
\* collection grows only by an add_to_cart that found no cart for its user;
\* the return of a checkout changes nothing but the items of one document,
\* to the empty list; an add_to_cart that begins while a cart of its user
\* exists finds that document and writes to it, creating none.
C18_CartsKept ==
    [][/\ Len(cart') >= Len(cart)
       /\ \A i \in 1..Len(cart) :
            cart'[i].id = cart[i].id /\ cart'[i].user_id = cart[i].user_id
       /\ Len(cart') > Len(cart) =>
            \E t \in Threads : AddWritten(t) /\ local[t].found = 0
       /\ \A t \in Threads :
            /\ CheckoutReturned(t) =>
                  /\ Len(cart') = Len(cart)
                  /\ \A i \in 1..Len(cart) :
                        \/ cart'[i] = cart[i]
                        \/ cart'[i] = [cart[i] EXCEPT !.items = <<>>]
            /\ (/\ pc[t] = "idle" /\ pc'[t] = "add_write"
                /\ \E i \in 1..Len(cart) : cart[i].user_id = local'[t].payload.user_id) =>
                  /\ local'[t].found \in 1..Len(cart)
                  /\ cart[local'[t].found].user_id = local'[t].payload.user_id
            /\ (AddWritten(t) /\ local[t].found # 0) =>
                  /\ Len(cart') = Len(cart)
                  /\ cart'[local[t].found].items # <<>>]_vars

\* The cart a checkout emptied holds items again, in the same single
\* document.
C18_Witness ==
    /\ AllIdle
    /\ Len(cart) = 1 /\ Len(order) = 1
    /\ order[1].user_id = cart[1].user_id
    /\ cart[1].items # <<>>
    /\ resp.op = "add_to_cart" /\ resp.status = 200

\* ------------------------------------------------------- order item claims
\* The catalog's document for a cart item.
CatalogEntry(item) ==
    product[CHOOSE i \in 1..Len(product) : product[i].id = HexValue[item.product_id]]

\* The lowercase renderings of the ids.
LowercaseIds == {"aa", "bb", "cc", "dd", "ee"}

\* The order items are the cart items read, one for one and in order, with
\* the catalog's title and price and subtotal = price * quantity; SameId
\* says how an order item's product_id relates to the cart item's.
CopiesCart(o, read, SameId(_, _)) ==
    /\ Len(o.items) = Len(read)
    /\ \A i \in 1..Len(read) :
         /\ SameId(o.items[i].product_id, read[i].product_id)
         /\ o.items[i].quantity = read[i].quantity
         /\ o.items[i].title = CatalogEntry(read[i]).title
         /\ o.items[i].price = CatalogEntry(read[i]).price
         /\ o.items[i].subtotal = CatalogEntry(read[i]).price * read[i].quantity

\* C19 as stated: the order a checkout inserts has one item per cart item
\* read, in the same order, with the same product_id and quantity, the
\* catalog's title and price, and subtotal = price * quantity.
C19_SameProductIdString ==
    [][\A t \in Threads : OrderInserted(t) =>
         CopiesCart(order'[Len(order')], local[t].read,
                    LAMBDA a, b : a = b)]_vars

\* C19, amended: as above, the order item's product_id being the lowercase
\* rendering of the id the cart item's product_id spells (the same string
\* when the cart item's is lowercase).
C19_CanonicalProductId ==
    [][\A t \in Threads : OrderInserted(t) =>
         CopiesCart(order'[Len(order')], local[t].read,
                    LAMBDA a, b : a \in LowercaseIds /\ HexValue[a] = HexValue[b])]_vars

\* An order of two items was inserted for a cart one of whose product_ids is
\* spelled in uppercase.
C19_Witness ==
    \E t \in Threads :
        /\ pc[t] = "checkout_clear"
        /\ Len(local[t].read) = 2
        /\ Len(order[local[t].order_id].items) = 2
        /\ \E i \in 1..2 : local[t].read[i].product_id = "AA"

\* C20: no step removes or modifies a product; every product_id stored in a
\* cart is in the catalog; no checkout fails with "Invalid product in cart"
\* and every get_cart returns a line for every item of the cart.
C20_CartProductsResolve ==
    [][/\ Len(product') >= Len(product)
       /\ SubSeq(product', 1, Len(product)) = product
       /\ \A c \in 1..Len(cart') : \A i \in 1..Len(cart'[c].items) :
            \E k \in 1..Len(product') :
                product'[k].id = HexValue[cart'[c].items[i].product_id]
       /\ resp'.op = "checkout" => resp'.detail # "Invalid product in cart"
       /\ \A u \in UserIdInputs :
            GetCartStep(u) =>
               /\ resp'.status = 200
               /\ Len(resp'.body.items) = Len(ItemsOf(u))]_vars

\* Both products are in the catalog and a get_cart returned both lines of a
\* cart of two items.
C20_Witness ==
    /\ Len(product) = 2
    /\ resp.op = "get_cart" /\ resp.status = 200
    /\ Len(resp.body.items) = 2
    /\ Len(ItemsOf(resp.payload.user_id)) = 2
====
